---- MODULE Spec2Model ----
(***************************************************************************)
(* GameSetup (src/testing.ts): the layered configuration resolver of the   *)
(* game client.  Launch config (_clientConfig), server setup result        *)
(* (_rgsConfig), editor defaults (_clientDefaults), the setup-complete     *)
(* listener list, the setup request / callback cycle and the read          *)
(* accessors.                                                              *)
(*                                                                         *)
(* JavaScript values are wrapped in one-field records so that values of    *)
(* different kinds can be compared: Null, Undefined, Bool(b), Str(s),      *)
(* Num(n), List(seq).  An accessor that raises a TypeError yields Threw.   *)
(***************************************************************************)
EXTENDS Integers, Sequences, FiniteSets, TLC

VARIABLES
    phase,                    \* component lifecycle: "constructed", "loaded", "started"
    injected,                 \* which of _communicatorRef / _localRef resolve to a component
    _clientConfig,            \* GameSetup._clientConfig
    _rgsConfig,               \* GameSetup._rgsConfig
    _onSetupCompleteHandlers, \* GameSetup._onSetupCompleteHandlers
    inflight,                 \* requests handed to the Communicator, callback not yet delivered
    observables,              \* values of versionObservable / autoCompleteObservable / rtpDisplayObservable
    CLogDebug,                \* the process-wide CLog.Debug flag
    last                      \* what the most recent operation did and returned

vars == <<phase, injected, _clientConfig, _rgsConfig,
          _onSetupCompleteHandlers, inflight, observables, CLogDebug, last>>

resolverVars == <<phase, _clientConfig, _rgsConfig, _onSetupCompleteHandlers,
                  inflight, observables, CLogDebug>>

-----------------------------------------------------------------------------
(* Bounds of the model *)

MaxHandlers == 3
MaxInflight == 2
MaxRoundId == 2

-----------------------------------------------------------------------------
(* JavaScript values *)

Null == [null |-> TRUE]
Undefined == [undefined |-> TRUE]
Threw == [threw |-> "TypeError"]
Bool(b) == [bool |-> b]
Str(s) == [str |-> s]
Num(n) == [num |-> n]
List(s) == [list |-> s]

\* x == null (loose): null or undefined
IsNullish(x) == x = Null \/ x = Undefined

\* !x for the values the model uses
Falsy(x) == \/ IsNullish(x)
            \/ x = Bool(FALSE)
            \/ x = Str("")
            \/ x = Num(0)

Truthy(x) == ~Falsy(x)

\* String.prototype.toLowerCase on the strings the model uses
ToLowerCase(s) ==
    CASE s = "Desktop" -> "desktop"
      [] s = "DESKTOP" -> "desktop"
      [] s = "Wager" -> "wager"
      [] s = "Mobile" -> "mobile"
      [] OTHER -> s

-----------------------------------------------------------------------------
(* Editor defaults *)

RecallOptions == [enabled |-> TRUE, history |-> 10]

AutoPlayConfig == [type |-> "standard", max |-> 200]

DisplayOptions ==
    [autoSpin |-> AutoPlayConfig,
     balance |-> FALSE, bet |-> FALSE, gameName |-> FALSE, help |-> FALSE,
     language |-> FALSE, lobby |-> FALSE, lobbyExclusion |-> "",
     recall |-> RecallOptions, rtp |-> FALSE, serverTime |-> FALSE,
     sessionTime |-> FALSE, settings |-> FALSE, sound |-> FALSE, turbo |-> FALSE]

ClientDefaults ==
    [gameId |-> Str(""),
     clientType |-> Str("mobile"),
     gameType |-> Str("wager"),
     use12HourClock |-> Bool(TRUE),
     version |-> Str("0.0.0"),
     jurisdiction |-> Str("everi"),
     recall |-> Undefined,
     lobbyUrl |-> Undefined,
     platformRecallRoundId |-> Null]

\* The configured trigger state (_setupOnState) and the states of the game
SetupOnState == "Initializing"

StateIDs == {"Initializing", "Idle"}

-----------------------------------------------------------------------------
(* Launch-config accessors *)

Client ==
    IF _clientConfig = Null THEN Str("Mobile")
    ELSE IF IsNullish(_clientConfig.clientType) THEN Threw
    ELSE IF ToLowerCase(_clientConfig.clientType.str) = "desktop" THEN Str("Desktop")
    ELSE Str("Mobile")

GameStyle ==
    IF _clientConfig = Null THEN Str("Social")
    ELSE IF IsNullish(_clientConfig.gameType) THEN Threw
    ELSE IF ToLowerCase(_clientConfig.gameType.str) = "wager" THEN Str("Wager")
    ELSE Str("Social")

Jurisdiction ==
    IF _clientConfig = Null THEN Threw ELSE _clientConfig.jurisdiction

Version ==
    IF _clientConfig # Null THEN _clientConfig.version ELSE Null

PlayID ==
    IF _clientConfig # Null /\ Truthy(_clientConfig.recall)
    THEN _clientConfig.recall
    ELSE Undefined

\* a truthiness test of recall instead of recall != undefined
RecallOfMutant(cc) ==
    IF cc # Null THEN Truthy(cc.recall) ELSE FALSE

RecallOf(cc) ==
    IF cc # Null THEN ~IsNullish(cc.recall) ELSE FALSE

Recall == RecallOf(_clientConfig)

PlatformRecallRoundIDOf(cc) ==
    IF cc # Null THEN cc.platformRecallRoundId ELSE Null

PlatformRecallRoundID == PlatformRecallRoundIDOf(_clientConfig)

-----------------------------------------------------------------------------
(* Setup-result accessors *)

\* the launch config asked before the setup result
Use12HourClockMutant ==
    IF _clientConfig # Null THEN _clientConfig.use12HourClock
    ELSE IF /\ _rgsConfig # Null
            /\ Truthy(_rgsConfig.settings)
            /\ ~IsNullish(_rgsConfig.settings.use12HourClock)
    THEN _rgsConfig.settings.use12HourClock
    ELSE Bool(TRUE)

Use12HourClock ==
    IF /\ _rgsConfig # Null
       /\ Truthy(_rgsConfig.settings)
       /\ ~IsNullish(_rgsConfig.settings.use12HourClock)
    THEN _rgsConfig.settings.use12HourClock
    ELSE IF _clientConfig # Null THEN _clientConfig.use12HourClock
    ELSE Bool(TRUE)

BetConfigs ==
    IF _rgsConfig = Null THEN Threw ELSE _rgsConfig.betConfigs

DenomConfigsOf(rgs) ==
    IF rgs # Null THEN rgs.denomConfigs ELSE Null

DenomConfigs == DenomConfigsOf(_rgsConfig)

KeyboardEnabled ==
    IF _rgsConfig # Null /\ Truthy(_rgsConfig.settings)
    THEN _rgsConfig.settings.keyboardEnabled
    ELSE FALSE

\* roundStates[0] of an empty array is undefined
LastPlayStateOf(rgs) ==
    IF rgs = Null THEN Null
    ELSE IF Truthy(rgs.roundStates)
         THEN IF Len(rgs.roundStates.list) > 0
              THEN rgs.roundStates.list[1]
              ELSE Undefined
         ELSE IF Truthy(rgs.previousRoundState)
              THEN rgs.previousRoundState
              ELSE Null

LastPlayState == LastPlayStateOf(_rgsConfig)

CurrentPlay ==
    IF _rgsConfig = Null THEN Null
    ELSE IF IsNullish(LastPlayState) THEN Threw
    ELSE Num(LastPlayState.playResult.playId)

CurrentRound ==
    IF _rgsConfig = Null THEN Null
    ELSE IF IsNullish(LastPlayState) THEN Threw
    ELSE Num(LastPlayState.playResult.PlaySequenceNumber)

LobbyURL ==
    IF _clientConfig # Null /\ Truthy(_clientConfig.lobbyUrl)
    THEN _clientConfig.lobbyUrl
    ELSE IF _rgsConfig # Null /\ Truthy(_rgsConfig.settings)
         THEN _rgsConfig.settings.lobbyUrl
         ELSE Str("window.location.href")

\* Bool(..), or Threw when _rgsConfig.settings is absent
HasLobbyURL ==
    IF _clientConfig # Null /\ Truthy(_clientConfig.lobbyUrl) THEN Bool(TRUE)
    ELSE IF _rgsConfig = Null THEN Bool(FALSE)
    ELSE IF IsNullish(_rgsConfig.settings) THEN Threw
    ELSE Bool(Truthy(_rgsConfig.settings.lobbyUrl))

IsPrizeForceEnabledOf(rgs) ==
    IF rgs = Null THEN FALSE
    ELSE IF Falsy(rgs.settings) THEN FALSE
    ELSE IF rgs.settings.disableDemo = TRUE THEN FALSE
    ELSE rgs.settings.prizeForceEnabled

IsPrizeForceEnabled == IsPrizeForceEnabledOf(_rgsConfig)

QuickStopPermitted ==
    IF _rgsConfig # Null /\ Truthy(_rgsConfig.settings)
    THEN _rgsConfig.settings.quickStopEnabled
    ELSE TRUE

ServerTimeZone ==
    IF _rgsConfig = Null THEN Str("")
    ELSE IF IsNullish(_rgsConfig.settings) THEN Threw
    ELSE IF IsNullish(_rgsConfig.settings.juris) THEN Threw
    ELSE _rgsConfig.settings.juris.timeZone

Settings ==
    IF _rgsConfig = Null THEN Threw ELSE _rgsConfig.settings

-----------------------------------------------------------------------------
(* Display policy *)

DisplayKeys ==
    {"AutoSpin", "Balance", "Bet", "Help", "Language", "Lobby", "Recall", "RTP",
     "ServerTime", "SessionTime", "Settings", "Sound", "Turbo", "Social",
     "ForWager", "GameInfo", "Demo", "QuickStop", "KeyboardControls"}

\* window.navigator.userAgent, as the outcome of the three regular expressions
UserAgents == [ios : BOOLEAN, safari : BOOLEAN, chromeWebView : BOOLEAN]

IsWebView(ua) ==
    IF ua.ios THEN ~ua.safari ELSE ua.chromeWebView

\* the lobby flag alone, without HasLobbyURL()
ShouldDisplayLobbyMutant(ua) ==
    LET ui == _rgsConfig.settings.uiDisplayOptions IN
    IF ~ui.lobby THEN FALSE
    ELSE IF ui.lobbyExclusion = "web" THEN IsWebView(ua)
    ELSE IF ui.lobbyExclusion = "webview" THEN ~IsWebView(ua)
    ELSE TRUE

ShouldDisplayLobby(ua) ==
    LET ui == _rgsConfig.settings.uiDisplayOptions
        displayLobby == ui.lobby /\ HasLobbyURL = Bool(TRUE)
    IN  IF ~displayLobby THEN FALSE
        ELSE IF ui.lobbyExclusion = "web" THEN IsWebView(ua)
        ELSE IF ui.lobbyExclusion = "webview" THEN ~IsWebView(ua)
        ELSE TRUE

\* the early return of ShouldDisplay
ShouldDisplayGuard ==
    \/ _rgsConfig = Null
    \/ Falsy(_rgsConfig.settings)
    \/ Falsy(_rgsConfig.settings.uiDisplayOptions)

\* the switch of ShouldDisplay
DisplaySwitch(key, ua) ==
         LET ui == _rgsConfig.settings.uiDisplayOptions IN
         CASE key = "AutoSpin" -> Bool(ui.autoSpin.type # "none")
           [] key = "Balance" -> Bool(ui.balance)
           [] key = "Bet" -> Bool(ui.bet)
           [] key = "Help" -> Bool(ui.help)
           [] key = "Language" -> Bool(ui.language)
           [] key = "Lobby" -> Bool(ShouldDisplayLobby(ua))
           [] key = "Recall" -> Bool(ui.recall.enabled)
           [] key = "RTP" -> Bool(ui.rtp)
           [] key = "ServerTime" -> Bool(ui.serverTime /\ ~Recall)
           [] key = "SessionTime" -> Bool(ui.sessionTime /\ ~Recall)
           [] key = "Settings" -> Bool(ui.settings)
           [] key = "Sound" -> Bool(ui.sound)
           [] key = "Turbo" -> Bool(ui.turbo /\ QuickStopPermitted)
           [] key = "Social" -> IF GameStyle = Threw THEN Threw
                                ELSE Bool(GameStyle = Str("Social"))
           [] key = "ForWager" -> IF GameStyle = Threw THEN Threw
                                  ELSE Bool(GameStyle = Str("Wager"))
           [] key = "GameInfo" -> Bool(ui.gameName /\ ~Recall)
           [] key = "Demo" -> Bool(IsPrizeForceEnabled /\ ~Recall)
           [] key = "QuickStop" -> Bool(QuickStopPermitted)
           [] key = "KeyboardControls" -> Bool(KeyboardEnabled)
           [] OTHER -> Undefined

\* the early return applied only to the keys that read a display option
ShouldDisplayMutant(key, ua) ==
    IF key \in {"Social", "ForWager", "QuickStop", "KeyboardControls"}
    THEN DisplaySwitch(key, ua)
    ELSE IF ShouldDisplayGuard THEN Bool(FALSE) ELSE DisplaySwitch(key, ua)

ShouldDisplay(key, ua) ==
    IF ShouldDisplayGuard THEN Bool(FALSE) ELSE DisplaySwitch(key, ua)

-----------------------------------------------------------------------------
(* Previous results *)

Digit(d) ==
    CASE d = 0 -> "0" [] d = 1 -> "1" [] d = 2 -> "2" [] d = 3 -> "3" [] d = 4 -> "4"
      [] d = 5 -> "5" [] d = 6 -> "6" [] d = 7 -> "7" [] d = 8 -> "8" [] d = 9 -> "9"

RECURSIVE NumberToString(_)
NumberToString(n) ==
    IF n < 10 THEN Digit(n) ELSE NumberToString(n \div 10) \o Digit(n % 10)

RECURSIVE JoinNumbers(_)
JoinNumbers(s) ==
    IF s = <<>> THEN ""
    ELSE IF Len(s) = 1 THEN NumberToString(s[1])
    ELSE NumberToString(s[1]) \o "," \o JoinNumbers(Tail(s))

\* JSON.stringify of a platformBetOption value; a member that is undefined is left out
StringifyBetOption(o) ==
    IF o = Undefined THEN ""
    ELSE IF o = Null THEN ",\"platformBetOption\":null"
    ELSE IF "str" \in DOMAIN o THEN ",\"platformBetOption\":\"" \o o.str \o "\""
    ELSE ",\"platformBetOption\":{\"defaultMult\":" \o NumberToString(o.defaultMult)
         \o ",\"list\":[" \o JoinNumbers(o.list) \o "]}"

\* JSON.stringify of a play state; JSON.stringify(undefined) is undefined
JSONStringify(state) ==
    IF state = Undefined THEN Undefined
    ELSE IF state = Null THEN Str("null")
    ELSE Str("{\"playResult\":{\"PlaySequenceNumber\":"
             \o NumberToString(state.playResult.PlaySequenceNumber)
             \o ",\"GamePlayIndex\":" \o NumberToString(state.playResult.GamePlayIndex)
             \o ",\"playId\":" \o NumberToString(state.playResult.playId) \o "}"
             \o StringifyBetOption(state.platformBetOption) \o "}")

\* the play index left out of the comparison
MatchesMutant(round, roundId, playId) ==
    round.playResult.PlaySequenceNumber = roundId

Matches(round, roundId, playId) ==
    /\ round.playResult.PlaySequenceNumber = roundId
    /\ round.playResult.GamePlayIndex = playId

\* forEach visits every element: a later match overwrites an earlier one
RECURSIVE FindRound(_, _, _, _)
FindRound(rounds, roundId, playId, foundRound) ==
    IF rounds = <<>> THEN foundRound
    ELSE FindRound(Tail(rounds), roundId, playId,
                   IF Matches(Head(rounds), roundId, playId)
                   THEN Head(rounds) ELSE foundRound)

\* the substitution of the latest play made also when roundStates is absent
GetPreviousResultMutant(roundId, playId) ==
    IF _rgsConfig = Null THEN Threw
    ELSE LET rounds == IF IsNullish(_rgsConfig.roundStates)
                       THEN <<>> ELSE _rgsConfig.roundStates.list
             foundRound == FindRound(rounds, roundId, playId, Null)
         IN  IF foundRound = Null
             THEN JSONStringify(LastPlayState)
             ELSE JSONStringify(foundRound)

GetPreviousResult(roundId, playId) ==
    IF _rgsConfig = Null THEN Threw
    ELSE IF IsNullish(_rgsConfig.roundStates) THEN Null
    ELSE LET foundRound == FindRound(_rgsConfig.roundStates.list, roundId, playId, Null)
         IN  IF foundRound = Null
             THEN JSONStringify(LastPlayState)
             ELSE JSONStringify(foundRound)

-----------------------------------------------------------------------------
(* Derived display values *)

ToFixed2(n) ==
    NumberToString(n \div 100) \o "." \o Digit((n % 100) \div 10) \o Digit(n % 10) \o "%"

\* Array.prototype.sort((a, b) => a - b), then rtps[0] and rtps[length - 1]
SortedFirst(rtps) ==
    IF rtps = <<>> THEN Undefined
    ELSE Num(CHOOSE m \in {rtps[i] : i \in DOMAIN rtps} :
                 \A i \in DOMAIN rtps : m <= rtps[i])

SortedLast(rtps) ==
    IF rtps = <<>> THEN Undefined
    ELSE Num(CHOOSE m \in {rtps[i] : i \in DOMAIN rtps} :
                 \A i \in DOMAIN rtps : m >= rtps[i])

\* a < b in JavaScript: false when either side is undefined
JsLess(a, b) ==
    IF a = Undefined \/ b = Undefined THEN FALSE ELSE a.num < b.num

\* the for-in loop over the denom configs; acc is [low, high, first]
RECURSIVE RtpLoop(_, _)
RtpLoop(denoms, acc) ==
    IF denoms = <<>> THEN acc
    ELSE LET denomConfig == Head(denoms) IN
         IF Falsy(denomConfig.rtp) THEN RtpLoop(Tail(denoms), acc)
         ELSE LET newLow == SortedFirst(denomConfig.rtp.list)
                  newHigh == SortedLast(denomConfig.rtp.list)
              IN  IF acc.first
                  THEN RtpLoop(Tail(denoms),
                               [low |-> newLow, high |-> newHigh, first |-> FALSE])
                  ELSE RtpLoop(Tail(denoms),
                               [low |-> IF JsLess(newLow, acc.low) THEN newLow ELSE acc.low,
                                high |-> IF JsLess(acc.high, newHigh) THEN newHigh ELSE acc.high,
                                first |-> FALSE])

RtpRange(denoms) ==
    RtpLoop(denoms, [low |-> Null, high |-> Null, first |-> TRUE])

\* the value written to rtpDisplayObservable; low and high are kept in hundredths
RtpDisplay(denomConfigs, local) ==
    LET range == RtpRange(denomConfigs.map) IN
    IF IsNullish(range.low) THEN Str("")
    ELSE IF local
         THEN IF range.low # range.high
              THEN Str("HelpScreen/RTPRange(" \o ToFixed2(range.low.num) \o ","
                       \o ToFixed2(range.high.num) \o ")")
              ELSE Str("HelpScreen/RTP(" \o ToFixed2(range.low.num) \o ")")
         ELSE IF range.low # range.high
              THEN Str("RTP " \o ToFixed2(range.low.num) \o " - " \o ToFixed2(range.high.num))
              ELSE Str("RTP " \o ToFixed2(range.low.num))

AutoCompleteDisplay(juris) ==
    IF juris.autoCompleteDayFreq = juris.autoCompleteDayMax
    THEN Str(NumberToString(juris.autoCompleteDayMax))
    ELSE Str(NumberToString(juris.autoCompleteDayFreq * 24) \o " - "
             \o NumberToString(juris.autoCompleteDayMax * 24))

\* updateObservables, from the configs it reads to the new observable values
updateObservables(cc, rgs, obs, local) ==
    [version |-> IF cc # Null THEN cc.version ELSE Null,
     autoComplete |->
        IF rgs # Null /\ Truthy(rgs.settings) /\ Truthy(rgs.settings.juris)
        THEN AutoCompleteDisplay(rgs.settings.juris)
        ELSE obs.autoComplete,
     rtpDisplay |->
        IF Truthy(DenomConfigsOf(rgs))
        THEN RtpDisplay(DenomConfigsOf(rgs), local)
        ELSE obs.rtpDisplay]

-----------------------------------------------------------------------------
(* The setup callback *)

\* JSON.parse on the encoded bet options the model sends; anything else is a SyntaxError
JSONParse(text) ==
    CASE text = "{\"defaultMult\":2,\"list\":[1,2]}" ->
            [ok |-> TRUE, value |-> [defaultMult |-> 2, list |-> <<1, 2>>]]
      [] text = "{\"defaultMult\":1,\"list\":[1]}" ->
            [ok |-> TRUE, value |-> [defaultMult |-> 1, list |-> <<1>>]]
      [] OTHER -> [ok |-> FALSE]

\* the field cleared when JSON.parse raises
parsePlatformBetOptionsMutant(setupResult) ==
    LET option == setupResult.platformBetOption IN
    IF ~IsNullish(option)
    THEN IF "str" \notin DOMAIN option THEN setupResult
         ELSE IF JSONParse(option.str).ok
              THEN [setupResult EXCEPT !.platformBetOption = JSONParse(option.str).value]
              ELSE [setupResult EXCEPT !.platformBetOption = Undefined]
    ELSE LET state == LastPlayStateOf(setupResult) IN
         IF ~IsNullish(state)
         THEN [setupResult EXCEPT !.platformBetOption = state.platformBetOption]
         ELSE setupResult

\* parsePlatformBetOptions(setupResult), called when _rgsConfig is setupResult
parsePlatformBetOptions(setupResult) ==
    LET option == setupResult.platformBetOption IN
    IF ~IsNullish(option)
    THEN IF "str" \notin DOMAIN option THEN setupResult
         ELSE IF JSONParse(option.str).ok
              THEN [setupResult EXCEPT !.platformBetOption = JSONParse(option.str).value]
              ELSE setupResult
    ELSE LET state == LastPlayStateOf(setupResult) IN
         IF ~IsNullish(state)
         THEN [setupResult EXCEPT !.platformBetOption = state.platformBetOption]
         ELSE setupResult

Repeat(n, x) == [i \in 1..n |-> x]

\* the validation left out
InvalidSetupMutant(config) == FALSE

\* !this._rgsConfig || !this._rgsConfig.denomConfigs
InvalidSetup(config) ==
    Falsy(config) \/ Falsy(config.denomConfigs)

\* this._onSetupCompleteHandlers.forEach(handler => handler()): the handlers called, in order
InvokeHandlers(handlers) == handlers

HandlerReport(result, steps, invoked, completed, threw) ==
    [op |-> "setupReceivedHandler", result |-> result, steps |-> steps,
     invoked |-> invoked, completed |-> completed, threw |-> threw]

\* the result stored before the guard on it
IgnoredMutant(s, result) ==
    [s EXCEPT !.rgsConfig = result,
              !.last = HandlerReport(result, <<>>, <<>>, <<>>, FALSE)]

\* if (!result) { return; }
Ignored(s, result) ==
    [s EXCEPT !.last = HandlerReport(result, <<>>, <<>>, <<>>, FALSE)]

\* completeState called before the listeners and updateObservables
AcceptedStepsMutant(invoked) ==
    <<"store", "parsePlatformBetOptions", "validate", "uiDisplayOptions", "completeState">>
    \o Repeat(Len(invoked), "listener")
    \o <<"updateObservables", "debug">>

\* the statements of setupReceivedHandler run for an accepted result, in order
AcceptedSteps(invoked) ==
    <<"store", "parsePlatformBetOptions", "validate", "uiDisplayOptions">>
    \o Repeat(Len(invoked), "listener")
    \o <<"updateObservables", "debug", "completeState">>

\* setupReceivedHandler(result), from the state it runs in (s: the resolver's fields)
\* to the state it leaves and the report of what it did
SetupReceived(s, result) ==
    IF Falsy(result)
    THEN Ignored(s, result)
    ELSE LET parsed == parsePlatformBetOptions(result) IN
         IF InvalidSetup(parsed)
         THEN [s EXCEPT !.rgsConfig = parsed,
                        !.last = HandlerReport(result,
                                    <<"store", "parsePlatformBetOptions", "invalid">>,
                                    <<>>, <<>>, FALSE)]
         ELSE IF Falsy(parsed.settings)
         THEN \* settings.uiDisplayOptions is assigned on an absent settings: TypeError
              [s EXCEPT !.rgsConfig = parsed,
                        !.last = HandlerReport(result,
                                    <<"store", "parsePlatformBetOptions", "validate">>,
                                    <<>>, <<>>, TRUE)]
         ELSE LET config == IF Falsy(parsed.settings.uiDisplayOptions)
                            THEN [parsed EXCEPT !.settings.uiDisplayOptions = DisplayOptions]
                            ELSE parsed
                  invoked == InvokeHandlers(s.handlers)
              IN  [s EXCEPT !.rgsConfig = config,
                            !.observables = updateObservables(s.clientConfig, config,
                                                              s.observables, s.local),
                            !.debug = IsPrizeForceEnabledOf(config),
                            !.last = HandlerReport(result, AcceptedSteps(invoked),
                                                   invoked, <<SetupOnState>>, FALSE)]

Fields ==
    [clientConfig |-> _clientConfig, rgsConfig |-> _rgsConfig,
     handlers |-> _onSetupCompleteHandlers, observables |-> observables,
     debug |-> CLogDebug, local |-> injected.local, last |-> last]

setupReceivedHandler(result) ==
    LET after == SetupReceived(Fields, result) IN
    /\ _rgsConfig' = after.rgsConfig
    /\ observables' = after.observables
    /\ CLogDebug' = after.debug
    /\ last' = after.last

-----------------------------------------------------------------------------
(* Inputs *)

LaunchConfig(recall, platformRecallRoundId, lobbyUrl, clientType, gameType) ==
    [gameId |-> Str("game"),
     clientType |-> clientType,
     gameType |-> gameType,
     use12HourClock |-> Bool(FALSE),
     version |-> Str("1.2.3"),
     jurisdiction |-> Str("nj"),
     recall |-> recall,
     lobbyUrl |-> lobbyUrl,
     platformRecallRoundId |-> platformRecallRoundId]

RecallValues == {Undefined, Num(0), Num(7)}

LobbyUrlValues == {Undefined, Str(""), Str("https://lobby")}

\* window["clientConfig"] as the host may inject it
WindowConfigs ==
    {Undefined} \cup
    {LaunchConfig(r, p, Undefined, Str("mobile"), Str("wager")) :
        r \in RecallValues, p \in {Null, Str("round-1")}}

ServerDisplayOptions(flag, exclusion) ==
    [autoSpin |-> [type |-> IF flag THEN "extended" ELSE "none", max |-> 100],
     balance |-> flag, bet |-> flag, gameName |-> flag, help |-> flag,
     language |-> flag, lobby |-> flag, lobbyExclusion |-> exclusion,
     recall |-> [enabled |-> flag, history |-> 5], rtp |-> flag, serverTime |-> flag,
     sessionTime |-> flag, settings |-> flag, sound |-> flag, turbo |-> flag]

ServerSettings(ui, lobbyUrl, prizeForceEnabled, disableDemo, quickStopEnabled) ==
    [uiDisplayOptions |-> ui,
     lobbyUrl |-> lobbyUrl,
     prizeForceEnabled |-> prizeForceEnabled,
     disableDemo |-> disableDemo,
     quickStopEnabled |-> quickStopEnabled,
     keyboardEnabled |-> quickStopEnabled,
     use12HourClock |-> Null,
     juris |-> [timeZone |-> Str("UTC-5"), autoCompleteDayFreq |-> 1,
                autoCompleteDayMax |-> 3]]

PlayState(sequence, index, play, option) ==
    [playResult |-> [PlaySequenceNumber |-> sequence, GamePlayIndex |-> index,
                     playId |-> play],
     platformBetOption |-> option]

SetupResult(denomConfigs, settings, roundStates, previousRoundState, option) ==
    [denomConfigs |-> denomConfigs,
     settings |-> settings,
     roundStates |-> roundStates,
     previousRoundState |-> previousRoundState,
     platformBetOption |-> option,
     betConfigs |-> [map |-> <<[key |-> "1", lines |-> 20]>>]]

Denoms ==
    [map |-> <<[key |-> "1", rtp |-> List(<<9600, 9450>>)],
               [key |-> "5", rtp |-> List(<<9588>>)],
               [key |-> "25", rtp |-> Undefined]>>]

FullSettings ==
    ServerSettings(ServerDisplayOptions(TRUE, ""), Str("https://lobby"), TRUE, FALSE, TRUE)

DenomChoices == {Undefined, Denoms}

SettingsChoices ==
    {Undefined, FullSettings, [FullSettings EXCEPT !.uiDisplayOptions = Undefined]}

EncodedOption == Str("{\"defaultMult\":2,\"list\":[1,2]}")

\* the results the Communicator delivers in the life-cycle specification
Results ==
    {Null} \cup
    {SetupResult(d, s, List(<<PlayState(1, 0, 1, Undefined)>>), Undefined, EncodedOption) :
        d \in DenomChoices, s \in SettingsChoices}

Handlers == {"h1", "h2"}

-----------------------------------------------------------------------------
(* Life cycle, setup request and listeners *)

NoObservables == [version |-> Undefined, autoComplete |-> Undefined, rtpDisplay |-> Undefined]

Init ==
    /\ phase = "constructed"
    /\ injected \in [communicator : BOOLEAN, local : BOOLEAN]
    /\ _clientConfig = Null
    /\ _rgsConfig = Null
    /\ _onSetupCompleteHandlers = <<>>
    /\ inflight = <<>>
    /\ observables = NoObservables
    /\ CLogDebug = FALSE
    /\ last = [op |-> "new"]

\* onLoad with window["clientConfig"] = config
LoadedConfig(config) ==
    IF Truthy(config) THEN config ELSE ClientDefaults

onLoad ==
    /\ phase = "constructed"
    /\ \E config \in WindowConfigs :
          /\ _clientConfig' = LoadedConfig(config)
          /\ observables' = updateObservables(LoadedConfig(config), _rgsConfig,
                                              observables, injected.local)
    /\ phase' = "loaded"
    /\ last' = [op |-> "onLoad"]
    /\ UNCHANGED <<injected, _rgsConfig, _onSetupCompleteHandlers, inflight, CLogDebug>>

start ==
    /\ phase = "loaded"
    /\ phase' = "started"
    /\ last' = [op |-> "start"]
    /\ UNCHANGED <<injected, _clientConfig, _rgsConfig, _onSetupCompleteHandlers,
                   inflight, observables, CLogDebug>>

\* the platform round id left out of the condition
RecallConditionMutant ==
    Recall = TRUE

\* the condition of requestSetup
RecallCondition ==
    Recall = TRUE \/ ~IsNullish(PlatformRecallRoundID)

\* the else of requestSetup left out: a recall session requests both
requestSetupMutant ==
    IF ~injected.communicator THEN <<>>
    ELSE IF RecallCondition THEN <<"RequestRecallSetup", "RequestSetup">>
    ELSE <<"RequestSetup">>

\* requestSetup(): the requests made of the Communicator
requestSetup ==
    IF ~injected.communicator THEN <<>>
    ELSE IF RecallCondition THEN <<"RequestRecallSetup">>
    ELSE <<"RequestSetup">>

onStateChangeHandler(state) ==
    /\ phase = "started"
    /\ Len(inflight) < MaxInflight
    /\ LET requested == IF state = SetupOnState THEN requestSetup ELSE <<>> IN
          /\ inflight' = inflight \o requested
          /\ last' = [op |-> "onStateChangeHandler", state |-> state,
                      requested |-> requested]
    /\ UNCHANGED <<phase, injected, _clientConfig, _rgsConfig,
                   _onSetupCompleteHandlers, observables, CLogDebug>>

StateChanged == \E state \in StateIDs : onStateChangeHandler(state)

OnSetupReceived(handler) ==
    /\ Len(_onSetupCompleteHandlers) < MaxHandlers
    /\ _onSetupCompleteHandlers' = Append(_onSetupCompleteHandlers, handler)
    /\ last' = [op |-> "OnSetupReceived", handler |-> handler]
    /\ UNCHANGED <<phase, injected, _clientConfig, _rgsConfig, inflight,
                   observables, CLogDebug>>

\* filter(setupHandler => setupHandler === handler)
FilterHandlers(handlers, handler) ==
    SelectSeq(handlers, LAMBDA setupHandler : setupHandler = handler)

OffSetupReceived(handler) ==
    /\ _onSetupCompleteHandlers' = FilterHandlers(_onSetupCompleteHandlers, handler)
    /\ last' = [op |-> "OffSetupReceived", handler |-> handler]
    /\ UNCHANGED <<phase, injected, _clientConfig, _rgsConfig, inflight,
                   observables, CLogDebug>>

Register == \E handler \in Handlers : OnSetupReceived(handler)

Unregister == \E handler \in Handlers : OffSetupReceived(handler)

\* the Communicator completes the oldest request and calls back with its result
SetupDelivered ==
    /\ inflight # <<>>
    /\ inflight' = Tail(inflight)
    /\ \E result \in Results : setupReceivedHandler(result)
    /\ UNCHANGED <<phase, injected, _clientConfig, _onSetupCompleteHandlers>>

\* a transport failure: the callback of the oldest request is never called
RequestLost ==
    /\ inflight # <<>>
    /\ inflight' = Tail(inflight)
    /\ last' = [op |-> "RequestLost"]
    /\ UNCHANGED <<phase, injected, _clientConfig, _rgsConfig,
                   _onSetupCompleteHandlers, observables, CLogDebug>>

Next ==
    \/ onLoad
    \/ start
    \/ StateChanged
    \/ Register
    \/ Unregister
    \/ SetupDelivered
    \/ RequestLost

Spec == Init /\ [][Next]_vars

-----------------------------------------------------------------------------
(* The read side: the accessors applied to the configurations the resolver can hold *)

QueryWindowConfigs ==
    {Undefined}
    \cup {LaunchConfig(r, Null, u, Str("mobile"), Str("wager")) :
            r \in RecallValues, u \in LobbyUrlValues}
    \cup {LaunchConfig(Undefined, Str("round-1"), Undefined, c, Str("social")) :
            c \in {Null, Str("desktop"), Str("DESKTOP")}}

QuerySettings ==
    {Undefined}
    \cup {ServerSettings(ui, u, demo[1], demo[2], demo[3]) :
            ui \in {Undefined} \cup {ServerDisplayOptions(f, e) :
                                        f \in BOOLEAN, e \in {"", "web", "webview"}},
            u \in LobbyUrlValues,
            demo \in {<<TRUE, FALSE, TRUE>>, <<TRUE, TRUE, FALSE>>, <<FALSE, FALSE, TRUE>>}}

DecodedOption == [defaultMult |-> 2, list |-> <<1, 2>>]

QueryRoundStates ==
    {Undefined,
     List(<<>>),
     List(<<PlayState(2, 0, 12, Undefined), PlayState(1, 1, 11, DecodedOption),
            PlayState(1, 0, 10, Undefined)>>),
     List(<<PlayState(1, 1, 13, Undefined), PlayState(2, 0, 12, Undefined),
            PlayState(1, 1, 11, Undefined)>>)}

QueryResults ==
    {Null}
    \cup {SetupResult(Denoms, s, List(<<PlayState(1, 0, 1, Undefined)>>), Undefined,
                      Undefined) : s \in QuerySettings}
    \cup {SetupResult(Undefined, s, List(<<PlayState(1, 0, 1, Undefined)>>), Undefined,
                      Undefined) :
            s \in {Undefined} \cup {ServerSettings(Undefined, u, TRUE, FALSE, TRUE) :
                                        u \in LobbyUrlValues}}
    \cup {SetupResult(Denoms, FullSettings, r, p, Undefined) :
            r \in QueryRoundStates, p \in {Undefined, PlayState(0, 0, 9, Undefined)}}
    \cup {SetupResult(Denoms, [FullSettings EXCEPT !.use12HourClock = Bool(b)],
                      List(<<PlayState(1, 0, 1, Undefined)>>), Undefined, Undefined) :
            b \in BOOLEAN}

\* the resolver after onLoad and start with window["clientConfig"] = config
Started(config, local) ==
    [clientConfig |-> LoadedConfig(config), rgsConfig |-> Null, handlers |-> <<>>,
     observables |-> updateObservables(LoadedConfig(config), Null, NoObservables, local),
     debug |-> FALSE, local |-> local, last |-> [op |-> "start"]]

\* either a resolver just constructed, or one started whose one setup request was answered
InitQuery ==
    /\ injected = [communicator |-> TRUE, local |-> FALSE]
    /\ _onSetupCompleteHandlers = <<>>
    /\ inflight = <<>>
    /\ \/ /\ phase = "constructed"
          /\ _clientConfig = Null
          /\ _rgsConfig = Null
          /\ observables = NoObservables
          /\ CLogDebug = FALSE
          /\ last = [op |-> "new"]
       \/ /\ phase = "started"
          /\ \E config \in QueryWindowConfigs, result \in QueryResults :
                LET after == SetupReceived(Started(config, injected.local), result) IN
                /\ _clientConfig = after.clientConfig
                /\ _rgsConfig = after.rgsConfig
                /\ observables = after.observables
                /\ CLogDebug = after.debug
                /\ last = after.last

\* only the Lobby case of ShouldDisplay reads the user agent
AgentsFor(key) ==
    IF key = "Lobby" THEN UserAgents
    ELSE {[ios |-> FALSE, safari |-> TRUE, chromeWebView |-> FALSE]}

CallShouldDisplay ==
    /\ \E key \in DisplayKeys : \E ua \in AgentsFor(key) :
          last' = [op |-> "ShouldDisplay", key |-> key, webView |-> IsWebView(ua),
                   ret |-> ShouldDisplay(key, ua)]
    /\ UNCHANGED resolverVars
    /\ UNCHANGED injected

CallGetPreviousResult ==
    /\ \E roundId \in 0..MaxRoundId, playId \in 0..MaxRoundId :
          last' = [op |-> "GetPreviousResult", roundId |-> roundId, playId |-> playId,
                   ret |-> GetPreviousResult(roundId, playId)]
    /\ UNCHANGED resolverVars
    /\ UNCHANGED injected

AccessorNames ==
    {"Client", "GameStyle", "Jurisdiction", "PlayID", "Recall", "PlatformRecallRoundID",
     "Use12HourClock", "BetConfigs", "CurrentPlay", "CurrentRound", "LastPlayState",
     "LobbyURL", "HasLobbyURL", "ServerTimeZone", "Settings"}

Accessor(name) ==
    CASE name = "Client" -> Client
      [] name = "GameStyle" -> GameStyle
      [] name = "Jurisdiction" -> Jurisdiction
      [] name = "PlayID" -> PlayID
      [] name = "Recall" -> Bool(Recall)
      [] name = "PlatformRecallRoundID" -> PlatformRecallRoundID
      [] name = "Use12HourClock" -> Use12HourClock
      [] name = "BetConfigs" -> BetConfigs
      [] name = "CurrentPlay" -> CurrentPlay
      [] name = "CurrentRound" -> CurrentRound
      [] name = "LastPlayState" -> LastPlayState
      [] name = "LobbyURL" -> LobbyURL
      [] name = "HasLobbyURL" -> HasLobbyURL
      [] name = "ServerTimeZone" -> ServerTimeZone
      [] name = "Settings" -> Settings

ReadAccessor ==
    /\ \E name \in AccessorNames :
          last' = [op |-> "get", name |-> name, ret |-> Accessor(name)]
    /\ UNCHANGED resolverVars
    /\ UNCHANGED injected

NextQuery ==
    \/ CallShouldDisplay
    \/ CallGetPreviousResult
    \/ ReadAccessor

SpecQuery == InitQuery /\ [][NextQuery]_vars

-----------------------------------------------------------------------------
(* Setup payloads: the denomConfigs and platformBetOption a server may send *)

MaxDenoms == 3

\* the rtp member of a denom config: absent, empty, one value of 0, two values
RtpChoices == {Undefined, List(<<>>), List(<<0>>), List(<<9600, 9450>>)}

\* denomConfigs with the given rtp members, in the order for-in visits the keys
DenomConfigsFrom(rtps) ==
    [map |-> [i \in 1..Len(rtps) |-> [key |-> NumberToString(i), rtp |-> rtps[i]]]]

PayloadDenoms ==
    {DenomConfigsFrom(rtps) : rtps \in UNION {[1..n -> RtpChoices] : n \in 0..MaxDenoms}}

\* platformBetOption as sent: absent, null, encoded, not decodable, already decoded
PayloadOptions ==
    {Undefined, Null, EncodedOption, Str("{defaultMult"), [defaultMult |-> 1, list |-> <<1>>]}

PriorOption == [defaultMult |-> 1, list |-> <<1>>]

\* roundStates and previousRoundState as sent
PayloadHistories ==
    {<<List(<<PlayState(2, 0, 12, PriorOption), PlayState(1, 0, 10, DecodedOption)>>),
       Undefined>>,
     <<List(<<PlayState(2, 0, 12, Undefined)>>), PlayState(1, 0, 10, PriorOption)>>,
     <<Undefined, PlayState(1, 0, 10, PriorOption)>>,
     <<List(<<>>), PlayState(1, 0, 10, PriorOption)>>,
     <<Undefined, Undefined>>}

Payloads ==
    {SetupResult(d, FullSettings, List(<<PlayState(1, 0, 1, Undefined)>>), Undefined,
                 EncodedOption) : d \in PayloadDenoms}
    \cup {SetupResult(Denoms, FullSettings, h[1], h[2], o) :
            h \in PayloadHistories, o \in PayloadOptions}
    \cup {SetupResult(Denoms, Undefined, Undefined, Undefined, Str("{defaultMult"))}

\* a resolver started, with two listeners registered, and no request made yet
InitPayload ==
    /\ phase = "started"
    /\ injected \in [communicator : {TRUE}, local : BOOLEAN]
    /\ _onSetupCompleteHandlers = <<"h1", "h2">>
    /\ inflight = <<>>
    /\ \E config \in {LaunchConfig(Undefined, Null, Undefined, Str("mobile"),
                                   Str("wager"))} :
          LET s == Started(config, injected.local) IN
          /\ _clientConfig = s.clientConfig
          /\ _rgsConfig = s.rgsConfig
          /\ observables = s.observables
          /\ CLogDebug = s.debug
          /\ last = s.last

\* the Communicator calls back with a payload for the oldest request
PayloadDelivered ==
    /\ inflight # <<>>
    /\ inflight' = Tail(inflight)
    /\ \E result \in Payloads : setupReceivedHandler(result)
    /\ UNCHANGED <<phase, injected, _clientConfig, _onSetupCompleteHandlers>>

\* the trigger state is entered while no request is in flight
PayloadTriggered ==
    /\ inflight = <<>>
    /\ onStateChangeHandler(SetupOnState)

NextPayload ==
    \/ PayloadTriggered
    \/ PayloadDelivered

SpecPayload == InitPayload /\ [][NextPayload]_vars

-----------------------------------------------------------------------------
(* Properties *)

\* what the launch config carries, read from its fields
CarriesRecall == _clientConfig # Null /\ _clientConfig.recall # Undefined

CarriesRoundId == _clientConfig # Null /\ _clientConfig.platformRecallRoundId # Null

Triggered == last.op = "onStateChangeHandler" /\ last.state = SetupOnState

\* C1: after a state-change event for the trigger state (with a Communicator
\* injected), the one request made is RequestRecallSetup when the launch config
\* carries a recall play id or a platform round id, and RequestSetup otherwise.
C1_RequestPath ==
    (Triggered /\ injected.communicator) =>
        last.requested = IF CarriesRecall \/ CarriesRoundId
                         THEN <<"RequestRecallSetup">>
                         ELSE <<"RequestSetup">>

\* a recall request made for the platform round id alone
C1_Witness ==
    /\ Triggered
    /\ ~CarriesRecall
    /\ CarriesRoundId
    /\ last.requested = <<"RequestRecallSetup">>

Handled == last.op = "setupReceivedHandler"

\* C2: a step of the setup callback with a non-null result that lacks denomConfigs
\* calls no listener, leaves the observables and the debug flag as they were,
\* signals no state completion and makes no new request.
C2_InvalidSetupAborts ==
    [][(Handled' /\ Truthy(last'.result) /\ Falsy(last'.result.denomConfigs)) =>
          /\ last'.invoked = <<>>
          /\ last'.completed = <<>>
          /\ ~last'.threw
          /\ observables' = observables
          /\ CLogDebug' = CLogDebug
          /\ inflight' = Tail(inflight)]_vars

\* a result without denomConfigs handled while listeners are registered
C2_Witness ==
    /\ Handled
    /\ Truthy(last.result)
    /\ Falsy(last.result.denomConfigs)
    /\ _onSetupCompleteHandlers # <<>>
    /\ last.invoked = <<>>

\* the result passed the validation of the callback
Validated ==
    Handled /\ Truthy(last.result) /\ Truthy(last.result.denomConfigs)

\* C3: for every result that is non-null and has denomConfigs, the callback calls
\* the registered listeners, each once, in the order of their registration.
C3_ListenersInvokedInOrder ==
    Validated => last.invoked = _onSetupCompleteHandlers

\* C4: a stored setup result that has denomConfigs has settings.uiDisplayOptions.
C4_DisplayOptionsPresent ==
    (_rgsConfig # Null /\ Truthy(_rgsConfig.denomConfigs)) =>
        /\ Truthy(_rgsConfig.settings)
        /\ Truthy(_rgsConfig.settings.uiDisplayOptions)

\* C5: GetPreviousResult returns to its caller, in every state, without raising.
C5_GetPreviousResultNeverThrows ==
    last.op = "GetPreviousResult" => last.ret # Threw

HasRoundStates ==
    _rgsConfig # Null /\ ~IsNullish(_rgsConfig.roundStates)

RoundAt(i) == _rgsConfig.roundStates.list[i]

IsMatch(i) ==
    /\ RoundAt(i).playResult.PlaySequenceNumber = last.roundId
    /\ RoundAt(i).playResult.GamePlayIndex = last.playId

\* C6: with a round-history list, GetPreviousResult returns the serialized form of
\* an entry whose sequence number and play index equal the arguments when there is
\* one, and otherwise the serialized form of the first entry of the list.
C6_PreviousResult ==
    (last.op = "GetPreviousResult" /\ HasRoundStates) =>
        LET indices == DOMAIN _rgsConfig.roundStates.list IN
        IF \E i \in indices : IsMatch(i)
        THEN \E i \in indices : IsMatch(i) /\ last.ret = JSONStringify(RoundAt(i))
        ELSE last.ret = IF indices = {} THEN Undefined ELSE JSONStringify(RoundAt(1))

\* a match further down the list than the first entry, and returned
C6_Witness ==
    /\ last.op = "GetPreviousResult"
    /\ HasRoundStates
    /\ Len(_rgsConfig.roundStates.list) > 1
    /\ ~IsMatch(1)
    /\ IsMatch(2)
    /\ last.ret = JSONStringify(RoundAt(2))
    /\ last.ret # JSONStringify(RoundAt(1))

\* the fallback to the first entry when nothing matches
C6_WitnessFallback ==
    /\ last.op = "GetPreviousResult"
    /\ HasRoundStates
    /\ Len(_rgsConfig.roundStates.list) > 1
    /\ \A i \in DOMAIN _rgsConfig.roundStates.list : ~IsMatch(i)
    /\ last.ret = JSONStringify(RoundAt(1))

\* C7: with a setup result stored that has no round-history list, GetPreviousResult
\* returns null, also when the result has a previousRoundState.
C7_NoRoundStatesGivesNull ==
    (last.op = "GetPreviousResult" /\ _rgsConfig # Null /\ IsNullish(_rgsConfig.roundStates))
        => last.ret = Null

C7_Witness ==
    /\ last.op = "GetPreviousResult"
    /\ _rgsConfig # Null
    /\ IsNullish(_rgsConfig.roundStates)
    /\ Truthy(_rgsConfig.previousRoundState)
    /\ last.ret = Null

NoDisplayOptions ==
    \/ _rgsConfig = Null
    \/ _rgsConfig.settings = Undefined
    \/ _rgsConfig.settings.uiDisplayOptions = Undefined

\* C8: ShouldDisplay returns false for every key when no setup result is stored or
\* its settings or settings.uiDisplayOptions is absent, and a call of ShouldDisplay
\* changes none of the resolver's fields.
C8_NoOptionsNoDisplay ==
    /\ []((last.op = "ShouldDisplay" /\ NoDisplayOptions) => last.ret = Bool(FALSE))
    /\ [][last'.op = "ShouldDisplay" => UNCHANGED resolverVars]_vars

\* a key that reads no display option, asked with settings but no display options
C8_Witness ==
    /\ last.op = "ShouldDisplay"
    /\ last.key = "QuickStop"
    /\ _rgsConfig # Null
    /\ _rgsConfig.settings # Undefined
    /\ _rgsConfig.settings.uiDisplayOptions = Undefined
    /\ _rgsConfig.settings.quickStopEnabled
    /\ last.ret = Bool(FALSE)

NoUrl(url) == url \in {Null, Undefined, Str("")}

NoLobbyUrl ==
    /\ _clientConfig = Null \/ NoUrl(_clientConfig.lobbyUrl)
    /\ \/ _rgsConfig = Null
       \/ _rgsConfig.settings = Undefined
       \/ NoUrl(_rgsConfig.settings.lobbyUrl)

\* C9: ShouldDisplay(Lobby) is false whenever neither the launch config nor the
\* stored settings has a non-empty lobbyUrl.
C9_NoLobbyWithoutUrl ==
    (last.op = "ShouldDisplay" /\ last.key = "Lobby" /\ NoLobbyUrl)
        => last.ret = Bool(FALSE)

\* the lobby flag set, no exclusion in the way, and no lobby URL
C9_Witness ==
    /\ last.op = "ShouldDisplay"
    /\ last.key = "Lobby"
    /\ NoLobbyUrl
    /\ ~NoDisplayOptions
    /\ _rgsConfig.settings.uiDisplayOptions.lobby
    /\ _rgsConfig.settings.uiDisplayOptions.lobbyExclusion = "web"
    /\ last.webView
    /\ last.ret = Bool(FALSE)

RecallKeys == {"ServerTime", "SessionTime", "GameInfo", "Demo"}

\* C10: in a recall session (the launch config carries a recall play id)
\* ShouldDisplay is false for ServerTime, SessionTime, GameInfo and Demo.
C10_RecallSuppresses ==
    (last.op = "ShouldDisplay" /\ last.key \in RecallKeys /\ CarriesRecall)
        => last.ret = Bool(FALSE)

\* recall play id 0, the serverTime flag set
C10_Witness ==
    /\ last.op = "ShouldDisplay"
    /\ last.key = "ServerTime"
    /\ CarriesRecall
    /\ _clientConfig.recall = Num(0)
    /\ ~NoDisplayOptions
    /\ _rgsConfig.settings.uiDisplayOptions.serverTime
    /\ last.ret = Bool(FALSE)

Got(name) == last.op = "get" /\ last.name = name

\* C11: Client is Desktop exactly when the launch config's clientType is "desktop"
\* in any letter case, and Mobile for every other clientType, null included, and
\* for an absent config.
C11_ClientType ==
    Got("Client") =>
        last.ret = IF /\ _clientConfig # Null
                      /\ _clientConfig.clientType \in
                            {Str("desktop"), Str("Desktop"), Str("DESKTOP")}
                   THEN Str("Desktop")
                   ELSE Str("Mobile")

HasSettings == _rgsConfig # Null /\ _rgsConfig.settings # Undefined

LaunchLobbyUrl == _clientConfig # Null /\ ~NoUrl(_clientConfig.lobbyUrl)

\* C12 as stated: Use12HourClock is the launch config's use12HourClock when a
\* launch config is present, otherwise the stored settings.use12HourClock,
\* otherwise true.
C12_LaunchClockFirst ==
    Got("Use12HourClock") =>
        last.ret = IF _clientConfig # Null THEN _clientConfig.use12HourClock
                   ELSE IF HasSettings /\ _rgsConfig.settings.use12HourClock # Null
                        THEN _rgsConfig.settings.use12HourClock
                        ELSE Bool(TRUE)

\* C12, amended: Use12HourClock is the stored settings.use12HourClock when it is
\* not null, otherwise the launch config's use12HourClock when a launch config is
\* present, otherwise true; LobbyURL is the launch lobbyUrl when non-empty, and
\* otherwise the stored settings.lobbyUrl when a setup result with settings is stored.
C12_Precedence ==
    /\ Got("Use12HourClock") =>
          last.ret = IF HasSettings /\ _rgsConfig.settings.use12HourClock # Null
                     THEN _rgsConfig.settings.use12HourClock
                     ELSE IF _clientConfig # Null THEN _clientConfig.use12HourClock
                     ELSE Bool(TRUE)
    /\ (Got("LobbyURL") /\ LaunchLobbyUrl) => last.ret = _clientConfig.lobbyUrl
    /\ (Got("LobbyURL") /\ ~LaunchLobbyUrl /\ HasSettings)
          => last.ret = _rgsConfig.settings.lobbyUrl

\* the server's clock setting differs from the launch config's and is returned
C12_Witness ==
    /\ Got("Use12HourClock")
    /\ HasSettings
    /\ _clientConfig # Null
    /\ _rgsConfig.settings.use12HourClock = Bool(TRUE)
    /\ _clientConfig.use12HourClock = Bool(FALSE)
    /\ last.ret = Bool(TRUE)

\* C20: when the launch config carries a recall play id (0 included) PlayID returns
\* that id, and when PlayID returns a value the launch config carries a recall
\* play id (Recall is true).
C20_RecallAndPlayIdAgree ==
    Got("PlayID") =>
        /\ CarriesRecall => last.ret = _clientConfig.recall
        /\ last.ret # Undefined => CarriesRecall

Without(handlers, handler) ==
    SelectSeq(handlers, LAMBDA setupHandler : setupHandler # handler)

\* C14: a step of OffSetupReceived(h) leaves in the listener list exactly the
\* listeners other than h, in their order.
C14_OffRemovesOnlyHandler ==
    [][last'.op = "OffSetupReceived" =>
          _onSetupCompleteHandlers' = Without(_onSetupCompleteHandlers, last'.handler)]_vars

\* C15: with a Communicator injected, a state-change event for the trigger state
\* adds exactly one request (recall or standard) to those in flight, an event for
\* another state adds none, and no other step of the resolver adds a request.
C15_OneRequestPerTrigger ==
    /\ [][last'.op = "onStateChangeHandler" =>
            IF last'.state = SetupOnState /\ injected.communicator
            THEN \E kind \in {"RequestRecallSetup", "RequestSetup"} :
                    inflight' = Append(inflight, kind) /\ last'.requested = <<kind>>
            ELSE inflight' = inflight /\ last'.requested = <<>>]_vars
    /\ [][Len(inflight') > Len(inflight) =>
            last'.op = "onStateChangeHandler" /\ last'.state = SetupOnState]_vars

\* a second trigger, while a request is in flight, in a recall session
C15_Witness ==
    /\ Triggered
    /\ CarriesRecall
    /\ last.requested = <<"RequestRecallSetup">>
    /\ inflight = <<"RequestRecallSetup", "RequestRecallSetup">>

\* C16: a step of the setup callback with a null result changes neither the stored
\* setup result nor the listener list nor the observables nor the debug flag, calls
\* no listener and signals no state completion.
C16_NullResultIsNoOp ==
    [][(Handled' /\ Falsy(last'.result)) =>
          /\ _rgsConfig' = _rgsConfig
          /\ _onSetupCompleteHandlers' = _onSetupCompleteHandlers
          /\ observables' = observables
          /\ CLogDebug' = CLogDebug
          /\ last'.invoked = <<>>
          /\ last'.completed = <<>>
          /\ ~last'.threw]_vars

\* a null result handled after a setup result was stored, with listeners registered
C16_Witness ==
    /\ Handled
    /\ last.result = Null
    /\ _rgsConfig # Null
    /\ Truthy(_rgsConfig.denomConfigs)
    /\ _onSetupCompleteHandlers # <<>>
    /\ last.invoked = <<>>

\* the places of a step among the steps of the last callback
Places(step) == {i \in DOMAIN last.steps : last.steps[i] = step}

Before(first, second) ==
    /\ Places(first) # {}
    /\ \A i \in Places(first), j \in Places(second) : i < j

\* C17: the state-complete signal is given only by the setup callback, only for the
\* trigger state and only as its last step, after the result was stored, then
\* validated, then every listener of the list called, then the observables
\* recomputed; when it is given a valid setup result is stored.
C17_CompleteIsLast ==
    /\ (~Handled /\ last.op \in {"onStateChangeHandler", "OnSetupReceived",
                                "OffSetupReceived", "RequestLost", "onLoad", "start"})
          => "completed" \notin DOMAIN last
    /\ (Handled /\ last.completed # <<>>) =>
          /\ last.completed = <<SetupOnState>>
          /\ Places("completeState") = {Len(last.steps)}
          /\ Before("store", "validate")
          /\ Before("validate", "listener")
          /\ Before("validate", "updateObservables")
          /\ Before("listener", "updateObservables") \/ last.invoked = <<>>
          /\ Before("updateObservables", "completeState")
          /\ Cardinality(Places("listener")) = Len(_onSetupCompleteHandlers)
          /\ last.invoked = _onSetupCompleteHandlers
          /\ _rgsConfig # Null
          /\ Truthy(_rgsConfig.denomConfigs)
    /\ (Handled /\ "completeState" \in {last.steps[i] : i \in DOMAIN last.steps})
          => last.completed # <<>>

\* a completion signalled after two listeners were called
C17_Witness ==
    /\ Handled
    /\ last.completed = <<SetupOnState>>
    /\ Len(last.invoked) = 2
    /\ last.steps[Len(last.steps)] = "completeState"

\* C19: when a setup callback has just stored a result and signalled completion,
\* the callback of a request that was already in flight then neither replaces the
\* stored result nor calls the listeners nor signals completion again.
C19_OverlappingRequestIgnored ==
    [][(Handled /\ last.completed # <<>> /\ Handled' /\ Truthy(last'.result)) =>
          /\ _rgsConfig' = _rgsConfig
          /\ last'.invoked = <<>>
          /\ last'.completed = <<>>]_vars

\* the rtp values of the denom configs that define an rtp array
RtpArrays(denomConfigs) ==
    {i \in DOMAIN denomConfigs.map : Truthy(denomConfigs.map[i].rtp)}

RtpValues(denomConfigs) ==
    UNION {{denomConfigs.map[i].rtp.list[j] : j \in DOMAIN denomConfigs.map[i].rtp.list} :
              i \in RtpArrays(denomConfigs)}

Lowest(values) == CHOOSE m \in values : \A v \in values : m <= v

Highest(values) == CHOOSE m \in values : \A v \in values : m >= v

\* the display of a single denom whose rtp array is [low, high]
DisplayOf(low, high) ==
    RtpDisplay(DenomConfigsFrom(<<List(<<low, high>>)>>), injected.local)

\* the callback ran updateObservables for the result it was given
Recomputed == Handled /\ Truthy(last.result) /\ last.completed # <<>>

\* C13: after the callback recomputed the observables for a result, the RTP display
\* shows the least and the greatest of all rtp values of the result's denom configs
\* (over 100, two decimals) when there is such a value, and it is blank only when
\* no denom config defines an rtp array.
C13_RtpRangeOverAllDenoms ==
    Recomputed =>
        LET values == RtpValues(last.result.denomConfigs) IN
        /\ values # {} =>
              observables.rtpDisplay = DisplayOf(Lowest(values), Highest(values))
        /\ observables.rtpDisplay = Str("") => RtpArrays(last.result.denomConfigs) = {}

Sent == last.result.platformBetOption

\* C18: after the callback handled a result, the stored platformBetOption is the
\* decoded structure when an encoded string was sent; the string as sent when it
\* does not decode, the validation, the listeners and the completion signal then
\* taking place as for any result; and the platformBetOption of LastPlayState of
\* the result when none was sent and there is a LastPlayState.
C18_BetOptionNormalized ==
    (Handled /\ Truthy(last.result)) =>
        /\ Sent = EncodedOption => _rgsConfig.platformBetOption = DecodedOption
        /\ Sent = Str("{defaultMult") =>
              /\ _rgsConfig.platformBetOption = Sent
              /\ Truthy(last.result.settings) =>
                    /\ last.invoked = _onSetupCompleteHandlers
                    /\ last.completed = <<SetupOnState>>
                    /\ \E i \in DOMAIN last.steps : last.steps[i] = "validate"
        /\ (Sent = Undefined /\ ~IsNullish(LastPlayStateOf(last.result))) =>
              _rgsConfig.platformBetOption =
                  LastPlayStateOf(last.result).platformBetOption

\* a string that does not decode was sent, kept, and the completion signalled
C18_Witness ==
    /\ Handled
    /\ Truthy(last.result)
    /\ Sent = Str("{defaultMult")
    /\ _rgsConfig.platformBetOption = Str("{defaultMult")
    /\ last.invoked = <<"h1", "h2">>
    /\ last.completed = <<SetupOnState>>

\* none was sent and the option of the first round state was taken
C18_WitnessInherited ==
    /\ Handled
    /\ Truthy(last.result)
    /\ Sent = Undefined
    /\ _rgsConfig.platformBetOption = PriorOption

====
